---- MODULE Spec2Model ----
(***************************************************************************)
(* Model of dreamview's PNCMonitor ScatterGraph component                  *)
(* (src/modules/dreamview/frontend/src/components/PNCMonitor/              *)
(* ScatterGraph.js): the name -> index registry kept by updateChart /      *)
(* updateCar / updateData, the two axis hooks updateTickWindow and         *)
(* syncXYWindowSize, the afterDatasetsDraw overlay and                     *)
(* generateScatterGraph.                                                   *)
(*                                                                         *)
(* JavaScript objects whose key order matters (properties.cars,            *)
(* properties.lines, data.polygons) are sequences of [name, value]         *)
(* entries in insertion order.  JavaScript numbers that may be undefined   *)
(* are records [kind, val].  Axis ranges are kept in half units (twice     *)
(* their value) so that the divisions by 2 of the source are exact.        *)
(***************************************************************************)
EXTENDS Integers, Sequences, FiniteSets, TLC

VARIABLES
    name2idx,   \* this.name2idx: name -> index, a function on the names recorded
    datasets,   \* this.chart.data.datasets: the series sequence (0-based in the source)
    props,      \* the props last handed to updateChart
    written,    \* name -> index handed to updateData by the last updateChart
    resolved,   \* name -> datasets.length at the moment the last updateChart
                \* recorded the name in name2idx
    created,    \* name -> index at which the last updateChart pushed its series
    removed,    \* the number of series the splice of the last updateChart removed
    redraw,     \* whether the last updateChart reached this.chart.update(0)
    overlay,    \* what afterDatasetsDraw did in the last draw of the chart
    xAxis,      \* chart.scales['x-axis-0']: [min, max] in half units
    yAxis,      \* chart.scales['y-axis-0']: [min, max] in half units
    options,    \* the options given to initializeCanvas
    hidden,     \* the 0-based indices of the datasets hidden in the legend
    fitted,     \* the axes whose afterDataLimits hook has run in this layout
    frames,     \* number of updateChart calls so far, at most MaxFrames
    repeated,   \* whether the last updateChart got the props of the call before it
    phase,      \* "chart": the life of the component; "axis": one layout pass
                \* of the axis hooks on their own; "graph": one call of
                \* generateScatterGraph
    call,       \* the arguments of the generateScatterGraph call
    graph       \* what the generateScatterGraph call came to

vars == <<name2idx, datasets, props, written, resolved, created, removed, redraw,
          overlay, xAxis, yAxis,
          options, hidden, fitted, frames, repeated, phase, call, graph>>

----------------------------------------------------------------------------
(* Bounds                                                                  *)

MaxCars == 1
MaxLines == 1
MaxPolygons == 2
MaxVariant == 1
MaxFrames == 3
MaxCoord == 1
MaxPoints == 2
WindowSize == 3

CarName(i) == "car" \o ToString(i)
LineName(i) == "line" \o ToString(i)
PolygonName(i) == "poly" \o ToString(i)

----------------------------------------------------------------------------
(* JavaScript values                                                       *)

Num(n) == [kind |-> "number", val |-> n]
Undefined == [kind |-> "undefined", val |-> 0]
\* the other values isValidValue turns down: null, NaN, Infinity
NullValue == [kind |-> "null", val |-> 0]
NaN == [kind |-> "NaN", val |-> 0]
Infinity == [kind |-> "Infinity", val |-> 0]

Point(x, y, h) == [x |-> Num(x), y |-> Num(y), heading |-> Num(h)]
EmptyPoint == [x |-> Undefined, y |-> Undefined, heading |-> Undefined]

Arr(items) == [kind |-> "array", items |-> items]
Null == [kind |-> "null", items |-> <<>>]

\* an ordered object: a sequence of [name, value] entries
Keys(obj) == { obj[i].name : i \in 1..Len(obj) }
Has(obj, name) == name \in Keys(obj)
Value(obj, name) == obj[CHOOSE i \in 1..Len(obj) : obj[i].name = name].value
\* _.get(object, path, defaultValue)
Get(obj, name, default) == IF Has(obj, name) THEN Value(obj, name) ELSE default

\* the sequences without repetition over a set, of every length
RECURSIVE Orders(_)
Orders(S) ==
    {<<>>} \cup UNION { { <<e>> \o t : t \in Orders(S \ {e}) } : e \in S }


----------------------------------------------------------------------------
(* Series and styles.  A style (the `properties' of one car, line or       *)
(* polygon) and a series (one element of chart.data.datasets) are records  *)
(* holding just the keys that are present, as the JavaScript objects do.   *)

\* properties.<key>, undefined when the key is absent
Prop(properties, key, default) ==
    IF key \in DOMAIN properties THEN properties[key] ELSE default

defaultPolygonProperties ==
    [color |-> "rgba(255, 0, 0, 0.8)", borderWidth |-> 2, pointRadius |-> 0,
     fill |-> FALSE, showLine |-> TRUE, showText |-> TRUE,
     cubicInterpolationMode |-> "monotone", lineTension |-> 0]

\* the config object built by updateData for a new series: the basic
\* properties, then every key of `properties' laid over them.  An absent
\* showLabel leaves showText undefined, which is falsy: FALSE here.
NewSeries(name, properties, data) ==
    LET base == [label |-> name,
                 showText |-> Prop(properties, "showLabel", FALSE),
                 text |-> name,
                 backgroundColor |-> Prop(properties, "color", "undefined"),
                 borderColor |-> Prop(properties, "color", "undefined"),
                 data |-> data]
    IN  [key \in DOMAIN base \cup DOMAIN properties |->
            IF key \in DOMAIN properties THEN properties[key] ELSE base[key]]

\* obj with obj[key] = value assigned
Assign(obj, key, value) ==
    [k \in DOMAIN obj \cup {key} |-> IF k = key THEN value ELSE obj[k]]

----------------------------------------------------------------------------
(* The chart registry: st = [name2idx, datasets, written, resolved,        *)
(* created, removed].  Indices are the 0-based indices of the source;      *)
(* datasets[idx] of the source is st.datasets[idx + 1].                    *)

\* updateData with the points of an update added to those already there
updateData_Accumulate(st, idx, name, properties, data) ==
    LET noted == Assign(st.written, name, idx) IN
    IF idx >= Len(st.datasets)
    THEN [st EXCEPT !.datasets = Append(@, NewSeries(name, properties, data)),
                    !.written = noted,
                    !.created = Assign(@, name, Len(st.datasets))]
    ELSE [st EXCEPT !.datasets[idx + 1] =
                        Assign(Assign(@, "text", name), "data", @.data \o data),
                    !.written = noted]

\* updateData taking the colour of the properties also for a series that
\* is there
updateData_Restyle(st, idx, name, properties, data) ==
    LET noted == Assign(st.written, name, idx) IN
    IF idx >= Len(st.datasets)
    THEN [st EXCEPT !.datasets = Append(@, NewSeries(name, properties, data)),
                    !.written = noted,
                    !.created = Assign(@, name, Len(st.datasets))]
    ELSE [st EXCEPT !.datasets[idx + 1] =
                        Assign(Assign(Assign(@, "text", name), "data", data),
                               "borderColor", Prop(properties, "color", "undefined")),
                    !.written = noted]

\* ScatterGraph.updateData: push a new series when datasets[idx] is
\* undefined, else replace text and data of the series at idx
updateData(st, idx, name, properties, data) ==
    LET noted == Assign(st.written, name, idx) IN
    IF idx >= Len(st.datasets)
    THEN [st EXCEPT !.datasets = Append(@, NewSeries(name, properties, data)),
                    !.written = noted,
                    !.created = Assign(@, name, Len(st.datasets))]
    ELSE [st EXCEPT !.datasets[idx + 1] = Assign(Assign(@, "text", name), "data", data),
                    !.written = noted]

\* resolve without the test for a recorded name
resolve_Reassign(st, name) ==
    [st EXCEPT !.name2idx = Assign(@, name, Len(st.datasets)),
               !.resolved = Assign(@, name, Len(st.datasets))]

\* resolve giving a new name the number of names recorded so far
resolve_ByCount(st, name) ==
    IF name \in DOMAIN st.name2idx
    THEN st
    ELSE [st EXCEPT !.name2idx = Assign(@, name, Cardinality(DOMAIN st.name2idx)),
                    !.resolved = Assign(@, name, Len(st.datasets))]

\* if (this.name2idx[name] === undefined) this.name2idx[name] = datasets.length
resolve(st, name) ==
    IF name \in DOMAIN st.name2idx
    THEN st
    ELSE [st EXCEPT !.name2idx = Assign(@, name, Len(st.datasets)),
                    !.resolved = Assign(@, name, Len(st.datasets))]

arrowName(name) == name \o "_arrow"
polygonName(name) == "skip_legend_" \o name \o "_car_bounding_box"

\* STORE.hmi.calculateCarPolygonPoints(x, y, heading): the footprint of the
\* car around its position, kept here as the position itself and the point
\* one unit ahead of it; undefined coordinates give undefined corners
calculateCarPolygonPoints(x, y, heading) ==
    IF x.kind = "number" /\ y.kind = "number"
    THEN << [x |-> x, y |-> y], [x |-> Num(x.val + 1), y |-> Num(y.val + 1)] >>
    ELSE << [x |-> Undefined, y |-> Undefined] >>

\* ScatterGraph.updateCar.  arrowProperties is the object of the caller's
\* properties with three keys set; the keys it sets there are set again on
\* every call, and polygonProperties reads only color, so the caller's
\* object need not be kept.
updateCar(st, name, point, properties) ==
    LET st1 == resolve(st, arrowName(name))
        idx == st1.name2idx[arrowName(name)]
        arrowProperties ==
            Assign(Assign(Assign(properties, "specialMarker", "car"),
                          "borderWidth", 0), "pointRadius", 0)
        st2 == updateData(st1, idx, arrowName(name), arrowProperties, <<point>>)
        st3 == resolve(st2, polygonName(name))
        idx2 == st3.name2idx[polygonName(name)]
        polygon == calculateCarPolygonPoints(point.x, point.y, point.heading)
        polygonProperties ==
            [borderWidth |-> 1, pointRadius |-> 0,
             color |-> Prop(properties, "color", "undefined"),
             showLine |-> TRUE, fill |-> FALSE, lineTension |-> 0]
    IN  updateData(st3, idx2, polygonName(name), polygonProperties, polygon)

\* the three loops of updateChart, each from entry i of the object it walks
RECURSIVE DrawCars(_, _, _)
DrawCars(st, p, i) ==
    IF i > Len(p.properties.cars) THEN st
    ELSE LET name == p.properties.cars[i].name
             point == Get(p.data.cars, name, EmptyPoint)
             properties == p.properties.cars[i].value
         IN  DrawCars(updateCar(st, name, point, properties), p, i + 1)

RECURSIVE DrawLines(_, _, _)
DrawLines(st, p, i) ==
    IF i > Len(p.properties.lines) THEN st
    ELSE LET name == p.properties.lines[i].name
             st1 == resolve(st, name)
             idx == st1.name2idx[name]
             properties == p.properties.lines[i].value
             points == Get(p.data.lines, name, <<>>)
         IN  DrawLines(updateData(st1, idx, name, properties, points), p, i + 1)

\* yields [st, idx]: the registry and the index after the last polygon
RECURSIVE DrawPolygons(_, _, _, _)
DrawPolygons(st, idx, p, i) ==
    IF i > Len(p.data.polygons) THEN [st |-> st, idx |-> idx]
    ELSE LET name == p.data.polygons[i].name
             points == p.data.polygons[i].value
             properties == Get(p.properties.polygons, name, defaultPolygonProperties)
         IN  IF points.kind = "null"
             THEN DrawPolygons(st, idx, p, i + 1)
             ELSE DrawPolygons(updateData(st, idx, name, properties, points.items),
                               idx + 1, p, i + 1)

\* splice taking the series from the front of the sequence
splice_Leading(ds, idx) == IF idx < Len(ds) THEN SubSeq(ds, Len(ds) - idx + 1, Len(ds)) ELSE ds

\* splice one place late
splice_OneLate(ds, idx) == IF idx + 1 < Len(ds) THEN SubSeq(ds, 1, idx + 1) ELSE ds

\* datasets.splice(idx, datasets.length - idx)
splice(ds, idx) == IF idx < Len(ds) THEN SubSeq(ds, 1, idx) ELSE ds

NoNames == [n \in {} |-> 0]

\* ScatterGraph.updateChart up to the call of chart.update: the registry
\* after the frame p, for p.data and p.properties both present
updateRegistry(st, p) ==
    LET cars == DrawCars([st EXCEPT !.written = NoNames, !.resolved = NoNames,
                                    !.created = NoNames], p, 1)
        lines == DrawLines(cars, p, 1)
        idx == Cardinality(DOMAIN lines.name2idx)
        polygons == DrawPolygons(lines, idx, p, 1)
        kept == splice(polygons.st.datasets, polygons.idx)
    IN  [polygons.st EXCEPT !.datasets = kept,
                            !.removed = Len(polygons.st.datasets) - Len(kept)]

----------------------------------------------------------------------------
(* The frames: the props a parent may hand over                            *)

Color(v) == IF v % 2 = 1 THEN "red" ELSE "blue"
CarStyle(i, v) == [color |-> Color(v)]
LineStyle(i, v) == [color |-> Color(v), showLabel |-> (v % 2 = 1)]
PolygonStyle(i, v) == [color |-> "green", showLabel |-> (v % 2 = 0)]

CarPoint(i, v) == Point(i, v, 0)
LinePoints(i, v) == << [x |-> Num(i), y |-> Num(0)], [x |-> Num(i + v), y |-> Num(v)] >>
PolygonPoints(i, v) == << [x |-> Num(0 - i), y |-> Num(v)] >>

\* the entries of an ordered object, from a sequence of indices
\* names and vals are functions on the indices
Entries(order, names, vals) ==
    [k \in 1..Len(order) |-> [name |-> names[order[k]], value |-> vals[order[k]]]]

\* a frame: cars and lines are the orders of properties.cars and
\* properties.lines, polygons the order of data.polygons, falsy the polygons
\* whose point list is null, v the variant of every value and style; in
\* variant 0 data.cars and data.lines lack their entries
Frame(cars, lines, polygons, falsy, v) ==
    LET carNames == [i \in 1..MaxCars |-> CarName(i)]
        lineNames == [i \in 1..MaxLines |-> LineName(i)]
        polygonNames == [i \in 1..MaxPolygons |-> PolygonName(i)]
        carStyle == [i \in 1..MaxCars |-> CarStyle(i, v)]
        lineStyle == [i \in 1..MaxLines |-> LineStyle(i, v)]
        polygonStyle == [i \in 1..MaxPolygons |-> PolygonStyle(i, v)]
        carPoint == [i \in 1..MaxCars |-> CarPoint(i, v)]
        linePoints == [i \in 1..MaxLines |-> LinePoints(i, v)]
        polygonPoints == [i \in 1..MaxPolygons |->
                            IF i \in falsy THEN Null ELSE Arr(PolygonPoints(i, v))]
    IN  [data |->
            [present |-> TRUE,
             cars |-> IF v = 0 THEN <<>> ELSE Entries(cars, carNames, carPoint),
             lines |-> IF v = 0 THEN <<>> ELSE Entries(lines, lineNames, linePoints),
             polygons |-> Entries(polygons, polygonNames, polygonPoints)],
         properties |->
            [present |-> TRUE,
             cars |-> Entries(cars, carNames, carStyle),
             lines |-> Entries(lines, lineNames, lineStyle),
             polygons |-> IF v % 2 = 1 /\ MaxPolygons >= 1
                          THEN Entries(<<1>>, polygonNames, polygonStyle)
                          ELSE <<>>]]

Absent == [present |-> FALSE, cars |-> <<>>, lines |-> <<>>, polygons |-> <<>>]

Range(seq) == { seq[i] : i \in 1..Len(seq) }

Frames ==
    { Frame(cars, lines, polygons, falsy, v) :
        cars \in Orders(1..MaxCars), lines \in Orders(1..MaxLines),
        polygons \in Orders(1..MaxPolygons), falsy \in SUBSET {1},
        v \in 0..MaxVariant }

NoProps == [data |-> Absent, properties |-> Absent]

SomeFrame == Frame(<<>>, <<>>, <<>>, {}, 0)

AllProps ==
    Frames \cup { NoProps, [SomeFrame EXCEPT !.data = Absent],
                  [SomeFrame EXCEPT !.properties = Absent] }

----------------------------------------------------------------------------
(* The axis hooks.  A scale is [min, max] in half units: a value v of the  *)
(* source is kept as 2 * v, so mid + windowSize / 2 is 2 * mid +           *)
(* windowSize and Math.floor((max + min) / 2) is (max + min) \div 4.       *)

Half(v) == 2 * v

SetMin(S) == CHOOSE m \in S : \A e \in S : m <= e
SetMax(S) == CHOOSE m \in S : \A e \in S : e <= m
Larger(a, b) == IF a >= b THEN a ELSE b

\* isValidValue inside syncXYWindowSize: not null, not undefined, not NaN,
\* finite
isValidValue(value) ==
    /\ value.kind # "null"
    /\ value.kind # "undefined"
    /\ value.kind # "NaN"
    /\ value.kind # "Infinity"

\* JavaScript truthiness of a number that may be undefined
Truthy(value) == value.kind = "number" /\ value.val # 0

\* updateTickWindow with half the window rounded down to an integer
updateTickWindow_FloorHalf(scale, windowSize, midValue) ==
    LET mid == IF Truthy(midValue)
               THEN Half(midValue.val)
               ELSE Half((scale.max + scale.min) \div 4)
    IN  [max |-> mid + Half(windowSize \div 2), min |-> mid - Half(windowSize \div 2)]

\* function updateTickWindow(scale, windowSize, midValue)
updateTickWindow(scale, windowSize, midValue) ==
    LET mid == IF Truthy(midValue)
               THEN Half(midValue.val)
               ELSE Half((scale.max + scale.min) \div 4)
    IN  [max |-> mid + windowSize, min |-> mid - windowSize]

\* the points syncXYWindowSize takes into account: those of the visible
\* datasets whose x and y are both valid (every dataset of a scatter chart
\* is on x-axis-0 and y-axis-0, so IDMatches holds; no point is hidden on
\* its own).  hid holds the 0-based indices of the hidden datasets.
ValidPoints(ds, hid) ==
    UNION { { ds[i].data[j] : j \in { k \in 1..Len(ds[i].data) :
                                        /\ isValidValue(ds[i].data[k].x)
                                        /\ isValidValue(ds[i].data[k].y) } } :
            i \in { d \in 1..Len(ds) : (d - 1) \notin hid } }

\* syncXYWindowSize with the span of the axis itself for max_diff
syncXYWindowSize_OwnSpan(scale, isHorizontal, ds, hid) ==
    LET points == ValidPoints(ds, hid)
        xs == { point.x.val : point \in points }
        ys == { point.y.val : point \in points }
    IN  IF points = {}
        THEN scale
        ELSE LET max_diff == IF isHorizontal THEN SetMax(xs) - SetMin(xs)
                             ELSE SetMax(ys) - SetMin(ys)
                 mid == IF isHorizontal
                        THEN (SetMax(xs) + SetMin(xs)) \div 2
                        ELSE (SetMax(ys) + SetMin(ys)) \div 2
             IN  [max |-> Half(mid) + max_diff, min |-> Half(mid) - max_diff]

\* syncXYWindowSize with the midpoint of x for both axes
syncXYWindowSize_MidOfX(scale, isHorizontal, ds, hid) ==
    LET points == ValidPoints(ds, hid)
        xs == { point.x.val : point \in points }
        ys == { point.y.val : point \in points }
    IN  IF points = {}
        THEN scale
        ELSE LET max_diff == Larger(SetMax(xs) - SetMin(xs), SetMax(ys) - SetMin(ys))
                 mid == (SetMax(xs) + SetMin(xs)) \div 2
             IN  [max |-> Half(mid) + max_diff, min |-> Half(mid) - max_diff]

\* syncXYWindowSize setting an empty range when there is no valid point
syncXYWindowSize_Collapse(scale, isHorizontal, ds, hid) ==
    LET points == ValidPoints(ds, hid)
        xs == { point.x.val : point \in points }
        ys == { point.y.val : point \in points }
    IN  IF points = {}
        THEN [max |-> 0, min |-> 0]
        ELSE LET max_diff == Larger(SetMax(xs) - SetMin(xs), SetMax(ys) - SetMin(ys))
                 mid == IF isHorizontal
                        THEN (SetMax(xs) + SetMin(xs)) \div 2
                        ELSE (SetMax(ys) + SetMin(ys)) \div 2
             IN  [max |-> Half(mid) + max_diff, min |-> Half(mid) - max_diff]

\* function syncXYWindowSize(scale), isHorizontal being scale.isHorizontal()
syncXYWindowSize(scale, isHorizontal, ds, hid) ==
    LET points == ValidPoints(ds, hid)
        xs == { point.x.val : point \in points }
        ys == { point.y.val : point \in points }
    IN  IF points = {}
        THEN scale
        ELSE LET max_diff == Larger(SetMax(xs) - SetMin(xs), SetMax(ys) - SetMin(ys))
                 mid == IF isHorizontal
                        THEN (SetMax(xs) + SetMin(xs)) \div 2
                        ELSE (SetMax(ys) + SetMin(ys)) \div 2
             IN  [max |-> Half(mid) + max_diff, min |-> Half(mid) - max_diff]

\* the afterDataLimits hook initializeCanvas installs on an axis
afterDataLimits(scale, isHorizontal, opts, ds, hid) ==
    LET setting == IF isHorizontal THEN opts.axes.x ELSE opts.axes.y IN
    IF Truthy(setting.windowSize)
    THEN updateTickWindow(scale, setting.windowSize.val, setting.midValue)
    ELSE IF opts.syncXYWindowSize
         THEN syncXYWindowSize(scale, isHorizontal, ds, hid)
         ELSE scale

----------------------------------------------------------------------------
(* The draw overlay.  The chart keeps one rendered element per point of a  *)
(* dataset: meta.data of dataset i has the length of its data, and         *)
(* meta.data[k] is undefined from that length on.                          *)

\* what the callback of afterDatasetsDraw does for one dataset: the label
\* at element floor(length / 2), the car glyph at element 0, or nothing;
\* element.tooltipPosition() of an element that is undefined, and
\* data[0].heading of a point that is undefined, throw a TypeError
drawDataset(dataset) ==
    LET length == Len(dataset.data) IN
    IF dataset.showText
    THEN IF length \div 2 < length
         THEN [drew |-> "text", element |-> length \div 2, rotation |-> 0,
               raised |-> "none"]
         ELSE [drew |-> "text", element |-> length \div 2, rotation |-> 0,
               raised |-> "TypeError"]
    ELSE IF "specialMarker" \in DOMAIN dataset /\ dataset.specialMarker = "car"
         THEN IF length > 0
              THEN [drew |-> "car", element |-> 0,
                    rotation |-> IF /\ "heading" \in DOMAIN dataset.data[1]
                                    /\ Truthy(dataset.data[1].heading)
                                 THEN dataset.data[1].heading.val ELSE 0,
                    raised |-> "none"]
              ELSE [drew |-> "car", element |-> 0, rotation |-> 0,
                    raised |-> "TypeError"]
         ELSE [drew |-> "nothing", element |-> 0, rotation |-> 0, raised |-> "none"]

\* afterDatasetsDraw: the datasets in order, from dataset i (1-based) on,
\* up to the first that throws
RECURSIVE afterDatasetsDraw(_, _)
afterDatasetsDraw(ds, i) ==
    IF i > Len(ds) THEN <<>>
    ELSE LET outcome == drawDataset(ds[i]) IN
         IF outcome.raised # "none" THEN <<outcome>>
         ELSE <<outcome>> \o afterDatasetsDraw(ds, i + 1)

----------------------------------------------------------------------------
(* The component                                                           *)

\* the limits the linear scale of the chart library determines from the
\* data before it calls afterDataLimits: the least and greatest valid value
\* of the axis over the visible datasets, 0 and 1 without any
DataLimits(ds, hid, isHorizontal) ==
    LET vals == UNION { { IF isHorizontal THEN ds[i].data[j].x.val ELSE ds[i].data[j].y.val :
                            j \in { k \in 1..Len(ds[i].data) :
                                isValidValue(IF isHorizontal THEN ds[i].data[k].x
                                             ELSE ds[i].data[k].y) } } :
                        i \in { d \in 1..Len(ds) : (d - 1) \notin hid } }
    IN  IF vals = {} THEN [min |-> Half(0), max |-> Half(1)]
        ELSE [min |-> Half(SetMin(vals)), max |-> Half(SetMax(vals))]

\* this.chart.update(0), for one axis: the data limits, then the hook
chartUpdate(ds, hid, opts, isHorizontal) ==
    afterDataLimits(DataLimits(ds, hid, isHorizontal), isHorizontal, opts, ds, hid)

Registry ==
    [name2idx |-> name2idx, datasets |-> datasets, written |-> written,
     resolved |-> resolved, created |-> created, removed |-> removed]

\* updateChart returning early only when data and properties are both absent
updateChart_BothAbsent(p) ==
    IF ~p.data.present /\ ~p.properties.present
    THEN /\ redraw' = FALSE
         /\ UNCHANGED <<name2idx, datasets, written, resolved, created, removed,
                        overlay, xAxis, yAxis>>
    ELSE LET st == updateRegistry(Registry, p) IN
         /\ name2idx' = st.name2idx
         /\ datasets' = st.datasets
         /\ written' = st.written
         /\ resolved' = st.resolved
         /\ created' = st.created
         /\ removed' = st.removed
         /\ redraw' = TRUE
         /\ overlay' = afterDatasetsDraw(st.datasets, 1)
         /\ xAxis' = chartUpdate(st.datasets, hidden, options, TRUE)
         /\ yAxis' = chartUpdate(st.datasets, hidden, options, FALSE)

\* ScatterGraph.updateChart(p)
updateChart(p) ==
    IF ~p.data.present \/ ~p.properties.present
    THEN /\ redraw' = FALSE
         /\ UNCHANGED <<name2idx, datasets, written, resolved, created, removed,
                        overlay, xAxis, yAxis>>
    ELSE LET st == updateRegistry(Registry, p) IN
         /\ name2idx' = st.name2idx
         /\ datasets' = st.datasets
         /\ written' = st.written
         /\ resolved' = st.resolved
         /\ created' = st.created
         /\ removed' = st.removed
         /\ redraw' = TRUE
         /\ overlay' = afterDatasetsDraw(st.datasets, 1)
         /\ xAxis' = chartUpdate(st.datasets, hidden, options, TRUE)
         /\ yAxis' = chartUpdate(st.datasets, hidden, options, FALSE)

\* componentWillReceiveProps(nextProps); componentDidMount hands the first
\* props to updateChart in the same way
componentWillReceiveProps ==
    /\ phase = "chart"
    /\ frames < MaxFrames
    /\ frames' = frames + 1
    /\ \E nextProps \in AllProps :
        /\ props' = nextProps
        /\ repeated' = (frames > 0 /\ nextProps = props)
        /\ updateChart(nextProps)
    /\ UNCHANGED <<options, hidden, fitted, phase, call, graph>>

\* the axis settings of a chart
Setting(windowSize, midValue) == [windowSize |-> windowSize, midValue |-> midValue]
NoSetting == Setting(Undefined, Undefined)

ChartOptions ==
    { [syncXYWindowSize |-> TRUE, axes |-> [x |-> NoSetting, y |-> NoSetting]],
      [syncXYWindowSize |-> FALSE,
       axes |-> [x |-> Setting(Num(WindowSize), Undefined),
                 y |-> Setting(Num(WindowSize), Num(0 - 1))]] }

NoRange == DataLimits(<<>>, {}, TRUE)

\* no call of generateScatterGraph, and nothing come of one
NoCall == [made |-> FALSE]
NoGraph == [done |-> FALSE]

\* initializeCanvas: an empty registry, an empty chart
Init ==
    /\ phase = "chart"
    /\ name2idx = NoNames
    /\ datasets = <<>>
    /\ written = NoNames
    /\ resolved = NoNames
    /\ created = NoNames
    /\ removed = 0
    /\ props = NoProps
    /\ redraw = FALSE
    /\ overlay = <<>>
    /\ hidden = {}
    /\ fitted = {}
    /\ xAxis = NoRange
    /\ yAxis = NoRange
    /\ options \in ChartOptions
    /\ frames = 0
    /\ repeated = FALSE
    /\ call = NoCall
    /\ graph = NoGraph

Next == componentWillReceiveProps

Spec == Init /\ [][Next]_vars

----------------------------------------------------------------------------
(* The axis hooks on their own: a layout pass of a chart whose datasets,   *)
(* hidden datasets, options and data limits are drawn from bounded sets,   *)
(* in which the chart library calls the hook of each axis once             *)

Coordinates == { Num(c) : c \in (0 - MaxCoord)..MaxCoord } \cup {Undefined}
AxisPoints == { [x |-> x, y |-> y] : x \in Coordinates, y \in Coordinates }

RECURSIVE Lists(_, _)
Lists(S, n) ==
    IF n = 0 THEN {<<>>}
    ELSE Lists(S, n - 1) \cup { Append(l, e) : l \in Lists(S, n - 1), e \in S }

ExamplePoints == << [x |-> Num(0), y |-> Num(0)], [x |-> Num(10), y |-> Num(4)] >>

\* points with a coordinate that is null, NaN, infinite or undefined
DegradedPoints ==
    << [x |-> NaN, y |-> Num(0)], [x |-> Num(1), y |-> NullValue],
       [x |-> Infinity, y |-> Num(1)], [x |-> Num(0), y |-> Undefined] >>

\* two datasets: one with any points, one with a single point far out
AxisDatasets ==
    { << [data |-> points], [data |-> << [x |-> Num(0 - 6), y |-> Num(7)] >>] >> :
        points \in Lists(AxisPoints, MaxPoints) \cup {ExamplePoints, DegradedPoints} }

\* the charts of a layout pass: the datasets with none or the second hidden
\* in the legend, a chart with every dataset hidden, a chart without datasets
AxisCharts ==
    { [datasets |-> ds, hidden |-> hid] : ds \in AxisDatasets, hid \in { {}, {1} } }
        \cup { [datasets |-> ds, hidden |-> {0, 1}] :
                    ds \in { d \in AxisDatasets : d[1].data = ExamplePoints } }
        \cup { [datasets |-> <<>>, hidden |-> {}] }

MidValues == { Undefined, Num(0), Num(0 - 1), Num(2) }
AxisOptions ==
    { [syncXYWindowSize |-> sync, axes |-> [x |-> setting, y |-> NoSetting]] :
        sync \in BOOLEAN,
        setting \in {NoSetting} \cup { Setting(Num(WindowSize), m) : m \in MidValues } }

DataRanges == { [min |-> Half(0 - 3), max |-> Half(1)], [min |-> Half(2), max |-> Half(5)] }

InitAxis ==
    /\ phase = "axis"
    /\ name2idx = NoNames
    /\ written = NoNames
    /\ resolved = NoNames
    /\ created = NoNames
    /\ removed = 0
    /\ props = NoProps
    /\ redraw = FALSE
    /\ overlay = <<>>
    /\ frames = 0
    /\ repeated = FALSE
    /\ \E chart \in AxisCharts :
        /\ datasets = chart.datasets
        /\ hidden = chart.hidden
    /\ options \in AxisOptions
    /\ xAxis \in DataRanges
    /\ yAxis = NoRange
    /\ fitted = {}
    /\ call = NoCall
    /\ graph = NoGraph

\* the chart library calls axisOptions.afterDataLimits(scale) of the x axis
afterDataLimitsX ==
    /\ phase = "axis"
    /\ "x" \notin fitted
    /\ xAxis' = afterDataLimits(xAxis, TRUE, options, datasets, hidden)
    /\ fitted' = fitted \cup {"x"}
    /\ UNCHANGED <<name2idx, datasets, props, written, resolved, created, removed,
                   redraw, overlay, yAxis, options,
                   hidden, frames, repeated, phase, call, graph>>

\* the chart library calls axisOptions.afterDataLimits(scale) of the y axis
afterDataLimitsY ==
    /\ phase = "axis"
    /\ "y" \notin fitted
    /\ yAxis' = afterDataLimits(yAxis, FALSE, options, datasets, hidden)
    /\ fitted' = fitted \cup {"y"}
    /\ UNCHANGED <<name2idx, datasets, props, written, resolved, created, removed,
                   redraw, overlay, xAxis, options,
                   hidden, frames, repeated, phase, call, graph>>

NextAxis == afterDataLimitsX \/ afterDataLimitsY

SpecAxis == InitAxis /\ [][NextAxis]_vars

----------------------------------------------------------------------------
(* generateScatterGraph: one call, with the setting, the line, car and     *)
(* polygon data drawn from bounded sets.  An argument is [kind, value]:    *)
(* kind "undefined" or "null" for an absent one, "object" for a present    *)
(* one (an object is truthy, also an empty one).                           *)

Given(value) == [kind |-> "object", value |-> value]
Missing == { [kind |-> "undefined"], [kind |-> "null"] }
Falsy(argument) == argument.kind # "object"

\* what a call comes to: it returns a value, having logged or not, or it
\* throws
Returned(value, logged) == [done |-> TRUE, raised |-> "none", returned |-> value, logged |-> logged]
Raised(error) == [done |-> TRUE, raised |-> error, logged |-> <<>>]

\* function generateScatterGraph(setting, lineDatasets, carDatasets,
\* polygonsDatasets).  The arguments of console.error are evaluated before
\* the call: setting.title of a setting that is undefined or null throws a
\* TypeError, and nothing is logged or returned.
generateScatterGraph(setting, lineDatasets, carDatasets, polygonsDatasets) ==
    IF \/ Falsy(lineDatasets)
       \/ Falsy(setting)
       \/ Falsy(setting.value.properties)
       \/ Falsy(setting.value.options)
    THEN IF Falsy(setting)
         THEN Raised("TypeError")
         ELSE Returned([kind |-> "null"],
                       << "Graph setting or data not found:", setting.value.title >>)
    ELSE Returned(Given([type |-> "ScatterGraph",
                         key |-> setting.value.title,
                         title |-> setting.value.title,
                         options |-> setting.value.options,
                         properties |-> setting.value.properties,
                         data |-> [lines |-> lineDatasets, cars |-> carDatasets,
                                   polygons |-> polygonsDatasets]]),
                  <<>>)

Titles == { "", "Speed" }

\* the settings a caller may hand over: none, or a title with or without
\* properties and options; the data handed over with them is that of a frame
GraphSettings ==
    Missing \cup
    { Given([title |-> title, properties |-> properties, options |-> opts]) :
        title \in Titles,
        properties \in Missing \cup { Given(f.properties) : f \in Frames },
        opts \in Missing \cup { Given(o) : o \in ChartOptions } }

InitGraph ==
    /\ phase = "graph"
    /\ name2idx = NoNames
    /\ datasets = <<>>
    /\ written = NoNames
    /\ resolved = NoNames
    /\ created = NoNames
    /\ removed = 0
    /\ props = NoProps
    /\ redraw = FALSE
    /\ overlay = <<>>
    /\ hidden = {}
    /\ fitted = {}
    /\ xAxis = NoRange
    /\ yAxis = NoRange
    /\ options \in { o \in ChartOptions : o.syncXYWindowSize }
    /\ frames = 0
    /\ repeated = FALSE
    /\ \E setting \in GraphSettings, f \in Frames :
        \E lines \in Missing \cup { Given(f.data.lines) } :
            call = [made |-> TRUE, setting |-> setting, lineDatasets |-> lines,
                    carDatasets |-> Given(f.data.cars),
                    polygonsDatasets |-> Given(f.data.polygons)]
    /\ graph = NoGraph

\* the caller calls generateScatterGraph
generateScatterGraphCall ==
    /\ phase = "graph"
    /\ ~graph.done
    /\ graph' = generateScatterGraph(call.setting, call.lineDatasets,
                                     call.carDatasets, call.polygonsDatasets)
    /\ UNCHANGED <<name2idx, datasets, props, written, resolved, created, removed,
                   redraw, overlay, xAxis, yAxis,
                   options, hidden, fitted, frames, repeated, phase, call>>

NextGraph == generateScatterGraphCall

SpecGraph == InitGraph /\ [][NextGraph]_vars

----------------------------------------------------------------------------
(* What a frame names and supplies                                         *)

\* the data updateChart hands to updateData for the names of the car, and
\* for a line
ArrowData(p, name) == << Get(p.data.cars, name, EmptyPoint) >>
BoxData(p, name) ==
    LET point == Get(p.data.cars, name, EmptyPoint)
    IN  calculateCarPolygonPoints(point.x, point.y, point.heading)
LineData(p, name) == Get(p.data.lines, name, <<>>)

CarsOf(p) == Keys(p.properties.cars)
LinesOf(p) == Keys(p.properties.lines)
\* the polygons of the frame whose point list is not falsy, in order
PolygonsOf(p) == SelectSeq(p.data.polygons, LAMBDA e : e.value.kind # "null")

\* the car and line names of the frame
NamedBy(p) ==
    { arrowName(c) : c \in CarsOf(p) } \cup { polygonName(c) : c \in CarsOf(p) }
        \cup LinesOf(p)

Supplied(p, n) ==
    IF n \in LinesOf(p) THEN LineData(p, n)
    ELSE IF \E c \in CarsOf(p) : n = arrowName(c)
         THEN ArrowData(p, CHOOSE c \in CarsOf(p) : n = arrowName(c))
         ELSE BoxData(p, CHOOSE c \in CarsOf(p) : n = polygonName(c))

AllPolygonNames == { PolygonName(i) : i \in 1..MaxPolygons }

\* the 0-based indices of the series that carry text n and points d
Holding(n, d) ==
    { i \in 0..(Len(datasets) - 1) :
        datasets[i + 1].text = n /\ datasets[i + 1].data = d }

----------------------------------------------------------------------------
(* C1: after every completed updateChart, every name recorded in name2idx  *)
(* has an index inside the series sequence, and the series at the index of *)
(* every car or line name of the frame carries that name as text and the   *)
(* points the frame supplied for it.                                       *)
C1_RegistryInvariant ==
    redraw =>
        /\ \A n \in DOMAIN name2idx : name2idx[n] < Len(datasets)
        /\ \A n \in NamedBy(props) :
            /\ n \in DOMAIN name2idx
            /\ datasets[name2idx[n] + 1].text = n
            /\ datasets[name2idx[n] + 1].data = Supplied(props, n)

----------------------------------------------------------------------------
(* C2: a name (car arrow, car bounding box, line or polygon) of two        *)
(* consecutive frames is held at the same index after the second frame as  *)
(* after the first.  `written' holds the index each name of the last frame *)
(* was written at.                                                         *)
C2_IndexStability ==
    [][(redraw /\ redraw') =>
        \A n \in DOMAIN written \cap DOMAIN written' : written'[n] = written[n]]_vars

(* C2, amended: a car arrow, car bounding box or line name of two          *)
(* consecutive frames keeps its index in name2idx, and is handed to        *)
(* updateData with that index in both frames.                              *)
C2_NamedIndexStability ==
    [][(redraw /\ redraw') =>
        \A n \in NamedBy(props) \cap NamedBy(props') :
            /\ n \in DOMAIN name2idx
            /\ name2idx'[n] = name2idx[n]
            /\ written[n] = name2idx[n]
            /\ written'[n] = name2idx[n]]_vars

\* the same frame came twice, naming a line recorded before the car was
C2_Witness ==
    /\ redraw /\ repeated
    /\ LineName(1) \in LinesOf(props) /\ CarName(1) \in CarsOf(props)
    /\ name2idx[LineName(1)] < name2idx[arrowName(CarName(1))]
    /\ Len(PolygonsOf(props)) > 0

----------------------------------------------------------------------------
(* C3: after updateChart the series sequence has length 2 * (cars of the   *)
(* frame) + (lines of the frame) + (polygons of the frame with a point     *)
(* list that is not falsy).                                                *)
C3_LengthByFrame ==
    redraw =>
        Len(datasets) = 2 * Cardinality(CarsOf(props)) + Cardinality(LinesOf(props))
                            + Len(PolygonsOf(props))

(* C3, amended: after updateChart the series sequence has length (names    *)
(* recorded in name2idx: two per car and one per line of this or of an     *)
(* earlier frame) + (polygons of the frame with a point list that is not   *)
(* falsy).                                                                 *)
C3_LengthByRegistry ==
    redraw =>
        Len(datasets) = Cardinality(DOMAIN name2idx) + Len(PolygonsOf(props))

\* a frame that leaves out a recorded name and has a null and a drawn polygon
C3_Witness ==
    /\ redraw
    /\ Cardinality(DOMAIN name2idx) > Cardinality(NamedBy(props))
    /\ Len(PolygonsOf(props)) > 0
    /\ Len(PolygonsOf(props)) < Len(props.data.polygons)

----------------------------------------------------------------------------
(* C4: after every frame the series sequence holds exactly one series for  *)
(* each polygon of the frame with a point list that is not falsy, with its *)
(* name as text and its points as data, and no series of a polygon that    *)
(* the frame does not have.                                                *)
C4_StalePolygonsDropped ==
    redraw =>
        LET polygons == PolygonsOf(props) IN
        /\ \A k \in 1..Len(polygons) :
            Cardinality(Holding(polygons[k].name, polygons[k].value.items)) = 1
        /\ \A i \in 1..Len(datasets) :
            datasets[i].text \in AllPolygonNames =>
                \E k \in 1..Len(polygons) : polygons[k].name = datasets[i].text

----------------------------------------------------------------------------
----------------------------------------------------------------------------
(* C10: a frame with a car the chart has not seen adds two series, the     *)
(* car's arrow followed by its bounding box; the arrow carries the special *)
(* marker 'car', the bounding box none; on an empty chart, with one car    *)
(* and no lines or polygons, the sequence has exactly these two series.    *)
C10_CarYieldsTwoSeries ==
    [][redraw' =>
        \A c \in CarsOf(props') :
            arrowName(c) \notin DOMAIN name2idx =>
                LET i == name2idx'[arrowName(c)] IN
                /\ name2idx'[polygonName(c)] = i + 1
                /\ Len(datasets') >= i + 2
                /\ datasets'[i + 1].label = arrowName(c)
                /\ "specialMarker" \in DOMAIN datasets'[i + 1]
                /\ datasets'[i + 1].specialMarker = "car"
                /\ datasets'[i + 2].label = polygonName(c)
                /\ "specialMarker" \notin DOMAIN datasets'[i + 2]
                /\ (datasets = <<>> /\ Cardinality(CarsOf(props')) = 1
                        /\ LinesOf(props') = {} /\ PolygonsOf(props') = <<>>)
                    => Len(datasets') = 2]_vars

----------------------------------------------------------------------------
(* The axis claims.  The extents are taken here from the points themselves *)
(* (every point of a dataset that is not hidden, with numbers for x and    *)
(* y), and the ranges compared in half units.                              *)

Shown ==
    { q \in UNION { Range(datasets[i].data) : i \in { d \in 1..Len(datasets) : (d - 1) \notin hidden } } :
        q.x.kind = "number" /\ q.y.kind = "number" }
MinX == SetMin({ q.x.val : q \in Shown })
MaxX == SetMax({ q.x.val : q \in Shown })
MinY == SetMin({ q.y.val : q \in Shown })
MaxY == SetMax({ q.y.val : q \in Shown })
SpanD == Larger(MaxX - MinX, MaxY - MinY)

BothSync ==
    /\ options.syncXYWindowSize
    /\ ~Truthy(options.axes.x.windowSize)
    /\ ~Truthy(options.axes.y.windowSize)
BothFitted == fitted = {"x", "y"}

(* C6: with syncXYWindowSize on both axes and at least one point with      *)
(* finite x and y, once both axes are recomputed the width of the X range  *)
(* equals the width of the Y range, and both equal the larger of the two   *)
(* data spans.                                                             *)
C6_SquareScales ==
    (phase = "axis" /\ BothSync /\ BothFitted /\ Shown # {}) =>
        /\ xAxis.max - xAxis.min = yAxis.max - yAxis.min
        /\ xAxis.max - xAxis.min = Half(SpanD)

\* both axes fitted to points whose spans differ, with a dataset hidden
C6_Witness ==
    /\ phase = "axis" /\ BothSync /\ BothFitted /\ Shown # {}
    /\ MaxX - MinX > MaxY - MinY /\ MaxY - MinY > 0
    /\ hidden # {}

C8_FixedWindowMidpoint ==
    (/\ phase = "axis" /\ "x" \in fitted
     /\ Truthy(options.axes.x.windowSize)
     /\ options.axes.x.midValue.kind = "number") =>
        LET w == options.axes.x.windowSize.val
            m == options.axes.x.midValue.val
        IN  xAxis = [min |-> Half(m) - w, max |-> Half(m) + w]

(* C9: for an axis with window size w, after updateTickWindow the width of *)
(* the range is w, for every range before the call and every data, with or *)
(* without a configured midpoint.                                          *)
C9_FixedWindowWidth ==
    (phase = "axis" /\ "x" \in fitted /\ Truthy(options.axes.x.windowSize)) =>
        xAxis.max - xAxis.min = Half(options.axes.x.windowSize.val)

\* the window set about the running midpoint of the range, with data shown
C9_Witness ==
    /\ phase = "axis" /\ "x" \in fitted
    /\ Truthy(options.axes.x.windowSize)
    /\ options.axes.x.windowSize.val % 2 = 1
    /\ options.axes.x.midValue = Undefined
    /\ Shown # {}

----------------------------------------------------------------------------
(* C11: an updateChart call whose props lack data or lack properties       *)
(* leaves the series sequence, the name -> index map and both axis ranges  *)
(* as they were and does not reach chart.update, from every reachable      *)
(* state.                                                                  *)
C11_NoOpGuard ==
    [][(~props'.data.present \/ ~props'.properties.present) =>
        /\ datasets' = datasets
        /\ name2idx' = name2idx
        /\ xAxis' = xAxis
        /\ yAxis' = yAxis
        /\ ~redraw']_vars

\* props without data came to a chart that holds the series of a polygon
C11_Witness ==
    /\ phase = "chart" /\ frames >= 2
    /\ ~props.data.present /\ props.properties.present
    /\ ~redraw
    /\ \E i \in 1..Len(datasets) : datasets[i].text \in AllPolygonNames

----------------------------------------------------------------------------
(* C12: when no dataset that is shown has a point whose x and y are both   *)
(* finite numbers (no dataset, every dataset hidden, or every point with a *)
(* null, undefined, NaN or infinite coordinate), syncXYWindowSize leaves   *)
(* min and max of the axis as they were.                                   *)
C12_NoFitWithoutData ==
    [][(phase = "axis" /\ options.syncXYWindowSize /\ Shown = {}) =>
        /\ ~Truthy(options.axes.x.windowSize) => xAxis' = xAxis
        /\ ~Truthy(options.axes.y.windowSize) => yAxis' = yAxis]_vars

\* both hooks ran on a chart whose only shown dataset has points with one
\* finite coordinate each, the other dataset being hidden
C12_Witness ==
    /\ phase = "axis" /\ BothSync /\ BothFitted /\ Shown = {}
    /\ hidden = {1}
    /\ datasets # <<>> /\ datasets[1].data = DegradedPoints
    /\ xAxis = [min |-> Half(2), max |-> Half(5)]

----------------------------------------------------------------------------
(* C13: a call of generateScatterGraph with the setting absent, or with    *)
(* setting.properties or setting.options absent, or with the line data     *)
(* absent, logs a diagnostic, returns null and does not raise.             *)
MissingConfiguration ==
    \/ Falsy(call.setting)
    \/ Falsy(call.setting.value.properties)
    \/ Falsy(call.setting.value.options)
    \/ Falsy(call.lineDatasets)

C13_MissingConfigNoGraph ==
    (phase = "graph" /\ graph.done /\ MissingConfiguration) =>
        /\ graph.raised = "none"
        /\ graph.logged # <<>>
        /\ graph.returned = [kind |-> "null"]

----------------------------------------------------------------------------
(* C14: in every frame the polygons are written at strictly increasing     *)
(* indices, and the index of the first polygon is greater than the index   *)
(* of every car and line name in name2idx, so that no polygon is written   *)
(* over the series of a car or line.  `written' holds the index each name  *)
(* of the frame was handed to updateData with.                             *)
C14_PolygonsAfterNamed ==
    redraw =>
        LET polygons == PolygonsOf(props) IN
        /\ \A k \in 1..(Len(polygons) - 1) :
            written[polygons[k].name] < written[polygons[k + 1].name]
        /\ \A k \in 1..Len(polygons) : \A n \in DOMAIN name2idx :
            written[polygons[k].name] > name2idx[n]

----------------------------------------------------------------------------
(* C15: a car or line name that name2idx does not hold when updateChart    *)
(* looks it up is given the length the series sequence has at that moment, *)
(* and the series made for it is pushed at exactly that index, behind      *)
(* every series already there; a name that name2idx holds keeps its index  *)
(* and is handed to updateData with it.  `resolved' holds the length of    *)
(* the sequence at the moment each new name was recorded, `created' the    *)
(* index each new series was pushed at.                                    *)
C15_ResolveOrCreateAppends ==
    [][redraw' =>
        /\ DOMAIN resolved' = NamedBy(props') \ DOMAIN name2idx
        /\ \A n \in NamedBy(props') :
            IF n \in DOMAIN name2idx
            THEN /\ name2idx'[n] = name2idx[n]
                 /\ written'[n] = name2idx[n]
            ELSE /\ name2idx'[n] = resolved'[n]
                 /\ written'[n] = name2idx'[n]
                 /\ n \in DOMAIN created'
                 /\ created'[n] = name2idx'[n]
                 /\ created'[n] >= Len(datasets)]_vars

\* a frame named a new line and a car already recorded, on a chart that
\* held the series of a polygon
C15_Witness ==
    /\ redraw
    /\ \E n \in DOMAIN resolved : created[n] >= 1
    /\ NamedBy(props) \ DOMAIN resolved # {}
    /\ Len(PolygonsOf(props)) > 0

----------------------------------------------------------------------------
(* C16: updateData for an index that holds a series changes only the text  *)
(* and the points of that series: over an updateChart every series that    *)
(* was there and is still there keeps its label, its colours, its special  *)
(* marker, its showText and every other key but text and data; a series no *)
(* name of the frame was written at is unchanged as a whole; and no entry  *)
(* of name2idx changes.                                                    *)
C16_InPlaceUpdate ==
    [][redraw' =>
        /\ \A i \in 1..Len(datasets) :
            i <= Len(datasets') =>
                /\ DOMAIN datasets'[i] = DOMAIN datasets[i]
                /\ \A key \in DOMAIN datasets[i] \ {"text", "data"} :
                    datasets'[i][key] = datasets[i][key]
                /\ (\A n \in DOMAIN written' : written'[n] # i - 1) =>
                    datasets'[i] = datasets[i]
        /\ \A n \in DOMAIN name2idx :
            n \in DOMAIN name2idx' /\ name2idx'[n] = name2idx[n]]_vars

\* a line whose series was made in an earlier frame got new points from a
\* frame that styles it in another colour
C16_Witness ==
    /\ redraw
    /\ LineName(1) \in LinesOf(props)
    /\ LineName(1) \notin DOMAIN created
    /\ name2idx[LineName(1)] < Len(datasets)
    /\ LET series == datasets[name2idx[LineName(1)] + 1] IN
        /\ series.label = LineName(1)
        /\ series.data = Supplied(props, LineName(1))
        /\ series.data # <<>>
        /\ series.borderColor # Value(props.properties.lines, LineName(1)).color
        /\ series.showText # Value(props.properties.lines, LineName(1)).showLabel

----------------------------------------------------------------------------
(* C17: over two consecutive frames with data and properties, the series   *)
(* sequence is shorter after the second than after the first only if the   *)
(* second frame draws fewer polygons than the first; and series go from    *)
(* the end of the sequence only: the series that remain are the first ones *)
(* of the sequence before, in their places (a series is known by its       *)
(* label, which updateData never changes).                                 *)
Labels(ds) == [i \in 1..Len(ds) |-> ds[i].label]

C17_ShrinksOnlyWithPolygons ==
    [][(redraw /\ redraw') =>
        /\ Len(datasets') < Len(datasets) =>
            /\ Len(PolygonsOf(props')) < Len(PolygonsOf(props))
            /\ Labels(datasets') = SubSeq(Labels(datasets), 1, Len(datasets'))
        /\ Len(datasets') >= Len(datasets) =>
            SubSeq(Labels(datasets'), 1, Len(datasets)) = Labels(datasets)
        /\ Len(datasets') = Len(datasets) + Cardinality(DOMAIN created') - removed']_vars

\* the second of two frames pushed no series and its splice removed one:
\* the sequence is shorter than it was, and not empty
C17_Witness ==
    /\ redraw /\ frames >= 2
    /\ created = NoNames
    /\ removed > 0
    /\ Len(datasets) >= 1

----------------------------------------------------------------------------
(* C18: in every draw after a frame the overlay completes for all series   *)
(* and reads only rendered elements that exist: element floor(length / 2)  *)
(* for a label, element 0 for the car glyph; also for a line or polygon    *)
(* without points whose showText is set, and for a car without data.       *)
C18_OverlayNeverRaises ==
    redraw =>
        /\ Len(overlay) = Len(datasets)
        /\ \A i \in 1..Len(overlay) :
            /\ overlay[i].raised = "none"
            /\ overlay[i].drew # "nothing" =>
                overlay[i].element < Len(datasets[i].data)

----------------------------------------------------------------------------
(* C19: in every reachable state two different names of name2idx have      *)
(* different indices.                                                      *)
C19_Name2idxInjective ==
    \A n \in DOMAIN name2idx : \A m \in DOMAIN name2idx :
        n # m => name2idx[n] # name2idx[m]

----------------------------------------------------------------------------
(* C20: once syncXYWindowSize has recomputed both axes, every point of a   *)
(* shown dataset with finite integer coordinates (x, y) has xAxis.min <= x *)
(* <= xAxis.max and yAxis.min <= y <= yAxis.max.  The ranges are in half   *)
(* units.                                                                  *)
C20_DataInView ==
    (phase = "axis" /\ BothSync /\ BothFitted) =>
        \A q \in Shown :
            /\ xAxis.min <= Half(q.x.val) /\ Half(q.x.val) <= xAxis.max
            /\ yAxis.min <= Half(q.y.val) /\ Half(q.y.val) <= yAxis.max

====
